---- MODULE Spec2Model ----
(***************************************************************************)
(* Order fulfilment engine of the e-commerce API: stock ledger, order      *)
(* status machine, checkout, payment settlement and the expiry sweep.      *)
(*                                                                         *)
(* The store is MongoDB accessed through Mongoose.  Every handler works on *)
(* document copies it loaded earlier; doc.save() writes the modified paths *)
(* of the copy back with $set, without checking what the store holds now.  *)
(* Only Order.create and Payment.create are given the session, so they are *)
(* the only operations inside the transaction: they become visible at      *)
(* commit and vanish when the callback throws.  Every await is a point     *)
(* where other handlers may run, so every query or save is one step.       *)
(***************************************************************************)
EXTENDS Integers, Sequences, FiniteSets, TLC

\* ---------------------------------------------------------------- bounds
NumUsers == 2
MaxProducts == 2
MaxStock == 2
MaxQty == 2
MaxCartVersion == 4
MaxOrders == 2
MaxTime == 16
MaxPrice == 2
NumWorkers == 2

\* ------------------------------------------------------ program constants
\* 15 * 60 * 1000 ms, counted in minutes
PaymentWindow == 15

Users == 1..NumUsers
ProductIds == 1..MaxProducts
Workers == 1..NumWorkers
Statuses == {"PENDING_PAYMENT", "PAID", "SHIPPED", "DELIVERED", "CANCELLED"}

\* the time that passes between two steps: up to a deadline, or just past it
ClockJumps == {PaymentWindow, PaymentWindow + 1}

\* ---------------------------------------------------------------- documents
\* A product document; a missing document (deleted, or never created) is
\* what findById and populate return as null.
NoProduct == [exists |-> FALSE, price |-> 0, stock |-> 0,
              availableStock |-> 0, reservedStock |-> 0]

NoCart == [exists |-> FALSE, items |-> << >>, ver |-> 0]

NoOrder == [exists |-> FALSE, userId |-> 0, items |-> << >>, totalAmount |-> 0,
            status |-> "PENDING_PAYMENT", paymentDeadline |-> 0, createdAt |-> 0]

NoPayment == [exists |-> FALSE, orderId |-> 0, amount |-> 0, status |-> "SUCCESS"]

NoProds == [p \in ProductIds |-> NoProduct]

\* ------------------------------------------------------------- Product model
\* productSchema validators: min 0 on the three counters, run by save()
productValid(doc) ==
  /\ doc.stock >= 0
  /\ doc.availableStock >= 0
  /\ doc.reservedStock >= 0

\* a reserve without its guard
reserveGuardNone(doc, quantity) == TRUE

reserveGuard(doc, quantity) == doc.availableStock >= quantity

\* a reserve that takes the units from availableStock and reserves nothing
reserveStockUnreserved(doc, quantity) == [doc EXCEPT !.availableStock = @ - quantity]

\* reserveStock on a loaded document: the mutated copy that save() will write
reserveStock(doc, quantity) ==
  [doc EXCEPT !.availableStock = @ - quantity, !.reservedStock = @ + quantity]

releaseGuard(doc, quantity) == doc.reservedStock >= quantity

\* a release that gives nothing back to availableStock
releaseReservedStockDropped(doc, quantity) == [doc EXCEPT !.reservedStock = @ - quantity]

releaseReservedStock(doc, quantity) ==
  [doc EXCEPT !.reservedStock = @ - quantity, !.availableStock = @ + quantity]

confirmGuard(doc, quantity) == doc.reservedStock >= quantity

\* a confirm that takes the units from availableStock as well
confirmStockDeductionTwice(doc, quantity) ==
  [doc EXCEPT !.reservedStock = @ - quantity, !.stock = @ - quantity,
              !.availableStock = @ - quantity]

confirmStockDeduction(doc, quantity) ==
  [doc EXCEPT !.reservedStock = @ - quantity, !.stock = @ - quantity]

\* doc.save(): $set of the modified paths onto whatever the store holds
savePaths(stored, doc, paths) ==
  [f \in DOMAIN stored |-> IF f \in paths THEN doc[f] ELSE stored[f]]

\* --------------------------------------------------------------- Order model
\* a table that lets a PAID order be set PAID again
validTransitionsLoose(status) ==
  CASE status = "PENDING_PAYMENT" -> {"PAID", "CANCELLED"}
    [] status = "PAID" -> {"PAID", "SHIPPED", "CANCELLED"}
    [] status = "SHIPPED" -> {"DELIVERED"}
    [] status = "DELIVERED" -> {}
    [] status = "CANCELLED" -> {}

\* updateStatus's table of the statuses that may follow each status
validTransitions(status) ==
  CASE status = "PENDING_PAYMENT" -> {"PAID", "CANCELLED"}
    [] status = "PAID" -> {"SHIPPED", "CANCELLED"}
    [] status = "SHIPPED" -> {"DELIVERED"}
    [] status = "DELIVERED" -> {}
    [] status = "CANCELLED" -> {}

\* updateStatus's guard: the includes() test on the loaded document
updateStatusAllowed(doc, newStatus) == newStatus \in validTransitions(doc.status)

isExpired(doc, time) == doc.status = "PENDING_PAYMENT" /\ time > doc.paymentDeadline

\* the sweep's query: status PENDING_PAYMENT and paymentDeadline $lt now
\* a query without the deadline
sweepSelectsPending(doc, time) == doc.status = "PENDING_PAYMENT"

\* { status: 'PENDING_PAYMENT', paymentDeadline: { $lt: new Date() } }
sweepSelects(doc, time) == doc.status = "PENDING_PAYMENT" /\ doc.paymentDeadline < time

\* -------------------------------------------------------------------- state
VARIABLES
  products,     \* Product collection: ProductIds -> document (NoProduct when absent)
  created,      \* number of products ever created (ids are never reused)
  carts,        \* Cart collection: Users -> document (NoCart when absent)
  orders,       \* Order collection: committed orders, in insertion order
  payments,     \* Payment collection: committed payment records
  emailQueue,   \* jobs added to the 'email processing' queue
  now,          \* the wall clock, in minutes
  h,            \* request handlers in flight: Workers -> local state
  sweep,        \* the cron job's run of cancelExpiredOrders: local state
  audit         \* history: per order, the units its releases and confirms moved

vars == <<products, created, carts, orders, payments, emailQueue, now, h, sweep, audit>>

\* The history of the ledger, per order: the units that pay's expiry branch
\* and the sweep each added to availableStock with the release saves they
\* made for the order, and the units that pay's confirm saves took out of
\* stock, as the store shows them.
NoAudit ==
  [o \in 1..MaxOrders |-> [payReleased |-> 0, sweepReleased |-> 0, confirmed |-> 0]]

payReleased(oid, pid) ==
  [audit EXCEPT ![oid].payReleased =
     @ + (products'[pid].availableStock - products[pid].availableStock)]

sweepReleased(oid, pid) ==
  [audit EXCEPT ![oid].sweepReleased =
     @ + (products'[pid].availableStock - products[pid].availableStock)]

confirmed(oid, pid) ==
  [audit EXCEPT ![oid].confirmed = @ + (products[pid].stock - products'[pid].stock)]

\* what a handler's history keeps of the store as it was when the call began
NoPre == [products |-> NoProds, orders |-> << >>, payments |-> << >>]

Pre == [products |-> products, orders |-> orders, payments |-> payments]

\* Local state of a request handler.  cart, order and prods are the document
\* copies the handler loaded; txOrder and txPay are documents inserted in the
\* transaction and not yet committed; pre is the store as it was when the
\* call began and enqueue is what became of the call's emailQueue.add (both
\* history, read by the properties only).
Idle0 ==
  [pc |-> "idle", op |-> "none", user |-> 0, oid |-> 0, pid |-> 0,
   target |-> "PENDING_PAYMENT", stock |-> 0, quantity |-> 0, cart |-> NoCart, order |-> NoOrder,
   prods |-> NoProds, i |-> 0, items |-> << >>, total |-> 0,
   txOrder |-> NoOrder, txPay |-> NoPayment, pre |-> NoPre,
   enqueue |-> "none", result |-> "none"]

\* what a call of an async function without a return statement resolves to
Undefined == -1

\* ran and failed record the last run: the orders it selected and the orders
\* whose processing ended in the per-order catch; returned is what the last
\* call of cancelExpiredOrders resolved to; pre is the store as it was when
\* the run in progress began
SweepIdle ==
  [pc |-> "idle", docs |-> << >>, prods |-> NoProds, k |-> 0, i |-> 0,
   ran |-> {}, failed |-> {}, returned |-> Undefined, pre |-> NoPre]

\* The call ends: the response (or the error) is ready and the locals are
\* dropped.  The request, the cart and the order as the handler holds them and
\* pre are kept until the response is delivered, for the properties to read.
Finished(loc, result) ==
  [Idle0 EXCEPT !.pc = "done", !.op = loc.op, !.user = loc.user, !.oid = loc.oid,
                !.pid = loc.pid, !.target = loc.target, !.stock = loc.stock,
                !.quantity = loc.quantity, !.cart = loc.cart,
                !.order = loc.order, !.pre = loc.pre, !.result = result]

InitEmpty ==
  /\ products = NoProds
  /\ created = 0
  /\ carts = [u \in Users |-> NoCart]
  /\ orders = << >>
  /\ payments = << >>
  /\ emailQueue = << >>
  /\ now = 0
  /\ h = [w \in Workers |-> Idle0]
  /\ sweep = SweepIdle
  /\ audit = NoAudit

\* populate('items.productId'): one query for the referenced products; a
\* reference to a deleted product is populated with null
populate(items) ==
  [p \in ProductIds |->
     IF \E n \in 1..Len(items) : items[n].productId = p THEN products[p] ELSE NoProduct]

\* ------------------------------------------- the ledger methods (Product.js)
LedgerOps == {"reserveStock", "releaseReservedStock", "confirmStockDeduction"}

\* One call of a ledger method on product pid as findById returns it: the
\* guard (a failed guard throws before anything is assigned), the mutated
\* copy doc, and this.save() with the schema's validators.  Slot w keeps the
\* call that returned last (op, pid, i = quantity, pre, result); the call it
\* held before moves to slot v.
LedgerCall(w, v, op, pid, quantity, guardOk, doc, paths) ==
  /\ products[pid].exists
  /\ LET result == IF ~guardOk THEN "StockError"
                   ELSE IF ~productValid(doc) THEN "ValidationError"
                   ELSE "ok"
         call == [Idle0 EXCEPT !.op = op, !.pid = pid, !.i = quantity, !.pre = Pre,
                               !.result = result]
     IN /\ products' = IF result = "ok"
                       THEN [products EXCEPT ![pid] = savePaths(@, doc, paths)]
                       ELSE products
        /\ h' = [x \in Workers |-> IF x = w THEN call ELSE IF x = v THEN h[w] ELSE h[x]]
  /\ UNCHANGED <<created, carts, orders, payments, emailQueue, now, sweep, audit>>

LedgerReserve(w, v, pid, quantity) ==
  LedgerCall(w, v, "reserveStock", pid, quantity, reserveGuard(products[pid], quantity),
             reserveStock(products[pid], quantity), {"availableStock", "reservedStock"})

LedgerRelease(w, v, pid, quantity) ==
  LedgerCall(w, v, "releaseReservedStock", pid, quantity,
             releaseGuard(products[pid], quantity),
             releaseReservedStock(products[pid], quantity), {"reservedStock", "availableStock"})

LedgerConfirm(w, v, pid, quantity) ==
  LedgerCall(w, v, "confirmStockDeduction", pid, quantity,
             confirmGuard(products[pid], quantity),
             confirmStockDeduction(products[pid], quantity), {"reservedStock", "stock"})

\* ------------------------------------------------------ catalog (products.js)
\* POST /api/products
ProductCreate(stock, price) ==
  /\ created < MaxProducts
  /\ created' = created + 1
  /\ products' = [products EXCEPT ![created + 1] =
                    [exists |-> TRUE, price |-> price, stock |-> stock,
                     availableStock |-> stock, reservedStock |-> 0]]
  /\ UNCHANGED <<carts, orders, payments, emailQueue, now, h, sweep, audit>>

\* PUT /api/products/:id, the stock part: what the handler computes on its copy
\* an update of stock that leaves availableStock alone
putStockOnly(doc, stock) == [doc EXCEPT !.stock = stock]

\* const stockDifference = stock - product.stock; product.stock = stock;
\* product.availableStock += stockDifference
putStock(doc, stock) ==
  [doc EXCEPT !.stock = stock, !.availableStock = @ + (stock - doc.stock)]

\* PUT /api/products/:id: findById, the update of the copy, and save()'s
\* validation; the write itself is ProductPutSave
ProductPutFind(w, pid, stock) ==
  /\ h[w].pc = "idle"
  /\ LET req == [Idle0 EXCEPT !.op = "put", !.pid = pid, !.stock = stock, !.pre = Pre]
         doc == putStock(products[pid], stock)
     IN h' = [h EXCEPT ![w] =
                IF ~products[pid].exists THEN Finished(req, "NotFound")
                ELSE IF ~productValid(doc) THEN Finished(req, "ValidationError")
                ELSE [req EXCEPT !.pc = "put_save",
                                 !.prods = [NoProds EXCEPT ![pid] = doc],
                                 !.i = IF stock = products[pid].stock THEN 0 ELSE 1]]
  /\ UNCHANGED <<products, created, carts, orders, payments, emailQueue, now, sweep, audit>>

ProductPutSave(w) ==
  /\ h[w].pc = "put_save"
  /\ LET pid == h[w].pid
         paths == IF h[w].i = 1 THEN {"stock", "availableStock"} ELSE {}
     IN IF products[pid].exists
        THEN /\ products' = [products EXCEPT ![pid] = savePaths(@, h[w].prods[pid], paths)]
             /\ h' = [h EXCEPT ![w] = Finished(h[w], "ok")]
        ELSE /\ products' = products
             /\ h' = [h EXCEPT ![w] = Finished(h[w], "DocumentNotFound")]
  /\ UNCHANGED <<created, carts, orders, payments, emailQueue, now, sweep, audit>>

\* a price update that rewrites the price in the stored order lines as well
ProductPutPriceLive(pid, price) ==
  /\ products[pid].exists
  /\ price # products[pid].price
  /\ products' = [products EXCEPT ![pid].price = price]
  /\ orders' = [o \in 1..Len(orders) |->
                 [orders[o] EXCEPT !.items =
                    [n \in 1..Len(@) |->
                       IF @[n].productId = pid THEN [@[n] EXCEPT !.priceAtPurchase = price]
                       ELSE @[n]]]]
  /\ UNCHANGED <<created, carts, payments, emailQueue, now, h, sweep, audit>>

\* PUT /api/products/:id with a body of { price } alone, running by itself:
\* findById, if (price) product.price = price, save() of the one modified path
ProductPutPrice(pid, price) ==
  /\ products[pid].exists
  /\ price # products[pid].price
  /\ products' = [products EXCEPT ![pid].price = price]
  /\ UNCHANGED <<created, carts, orders, payments, emailQueue, now, h, sweep, audit>>

\* DELETE /api/products/:id
ProductDelete(pid) ==
  /\ products[pid].exists
  /\ products' = [products EXCEPT ![pid] = NoProduct]
  /\ UNCHANGED <<created, carts, orders, payments, emailQueue, now, h, sweep, audit>>

\* ------------------------------------------------------------ cart (Cart.js)
lineOf(items, productId) ==
  IF \E n \in 1..Len(items) : items[n].productId = productId
  THEN CHOOSE n \in 1..Len(items) : items[n].productId = productId
  ELSE 0

\* an addItem that pushes a line whether the product has one or not
addItemAlwaysPush(cart, productId, quantity) ==
  [cart EXCEPT !.items = Append(@, [productId |-> productId, quantity |-> quantity]),
               !.ver = @ + 1]

\* cartSchema.methods.addItem; ver is the document's __v, which Mongoose
\* increments on $push and on $set of the whole array
addItem(cart, productId, quantity) ==
  LET n == lineOf(cart.items, productId)
  IN IF n > 0
     THEN [cart EXCEPT !.items[n].quantity = @ + quantity]
     ELSE [cart EXCEPT !.items = Append(@, [productId |-> productId, quantity |-> quantity]),
                       !.ver = @ + 1]

\* a clearCart that leaves the items in place
clearCartKeepsItems(cart) == [cart EXCEPT !.ver = @ + 1]

\* cartSchema.methods.clearCart: this.items = []; the copy that save() writes
clearCart(cart) == [cart EXCEPT !.items = << >>, !.ver = @ + 1]

\* POST /api/cart/items
CartAddItem(u, pid, quantity) ==
  /\ products[pid].exists
  /\ products[pid].availableStock >= quantity
  /\ LET cart == IF carts[u].exists THEN carts[u] ELSE [NoCart EXCEPT !.exists = TRUE]
         n == lineOf(cart.items, pid)
     IN /\ (n > 0 => cart.items[n].quantity + quantity <= MaxQty)
        /\ carts' = [carts EXCEPT ![u] = addItem(cart, pid, quantity)]
  /\ UNCHANGED <<products, created, orders, payments, emailQueue, now, h, sweep, audit>>

\* cartItemSchema's validator, run by save(): quantity min 1
cartValid(cart) == \A n \in 1..Len(cart.items) : cart.items[n].quantity >= 1

otherLines(items, productId) == SelectSeq(items, LAMBDA item : item.productId # productId)

\* cartSchema.methods.updateItemQuantity, for a product that has a line
updateItemQuantity(cart, productId, quantity) ==
  IF quantity <= 0
  THEN [cart EXCEPT !.items = otherLines(@, productId), !.ver = @ + 1]
  ELSE [cart EXCEPT !.items[lineOf(cart.items, productId)].quantity = quantity]

\* cartSchema.methods.removeItem
removeItem(cart, productId) ==
  [cart EXCEPT !.items = otherLines(@, productId), !.ver = @ + 1]

\* the carts the model keeps: quantities and __v are capped
cartInBounds(cart) ==
  /\ cart.ver <= MaxCartVersion
  /\ \A n \in 1..Len(cart.items) : cart.items[n].quantity <= MaxQty

\* a cart request of user u as it is answered; cart is the document as loaded
cartAnswer(op, u, pid, quantity, result) ==
  Finished([Idle0 EXCEPT !.op = op, !.user = u, !.pid = pid, !.quantity = quantity,
                         !.cart = carts[u]], result)

\* save() of the cart the handler changed: the validators, then the write
cartSave(w, op, u, pid, quantity, doc) ==
  /\ cartInBounds(doc)
  /\ IF cartValid(doc)
     THEN /\ carts' = [carts EXCEPT ![u] = doc]
          /\ h' = [h EXCEPT ![w] = cartAnswer(op, u, pid, quantity, "ok")]
     ELSE /\ UNCHANGED carts
          /\ h' = [h EXCEPT ![w] = cartAnswer(op, u, pid, quantity, "ValidationError")]

cartRefuse(w, op, u, pid, quantity, result) ==
  /\ UNCHANGED carts
  /\ h' = [h EXCEPT ![w] = cartAnswer(op, u, pid, quantity, result)]

\* POST /api/cart/items with its answer kept; the cart is created when the
\* user has none
CartPost(w, u, pid, quantity) ==
  /\ h[w].pc = "idle"
  /\ IF quantity < 1 THEN cartRefuse(w, "cartAdd", u, pid, quantity, "ValidationError")
     ELSE IF ~products[pid].exists THEN cartRefuse(w, "cartAdd", u, pid, quantity, "NotFound")
     ELSE IF products[pid].availableStock < quantity
          THEN cartRefuse(w, "cartAdd", u, pid, quantity, "InsufficientStock")
     ELSE LET cart == IF carts[u].exists THEN carts[u] ELSE [NoCart EXCEPT !.exists = TRUE]
          IN cartSave(w, "cartAdd", u, pid, quantity, addItem(cart, pid, quantity))
  /\ UNCHANGED <<products, created, orders, payments, emailQueue, now, sweep, audit>>

\* PUT /api/cart/items/:productId
CartPut(w, u, pid, quantity) ==
  /\ h[w].pc = "idle"
  /\ LET n == lineOf(carts[u].items, pid)
     IN IF quantity = 0 \/ quantity < 0
        THEN cartRefuse(w, "cartUpdate", u, pid, quantity, "BadRequest")
        ELSE IF ~products[pid].exists
             THEN cartRefuse(w, "cartUpdate", u, pid, quantity, "NotFound")
        ELSE IF ~carts[u].exists
             THEN cartRefuse(w, "cartUpdate", u, pid, quantity, "NotFound")
        ELSE IF n > 0 /\ quantity > carts[u].items[n].quantity
                /\ products[pid].availableStock < quantity - carts[u].items[n].quantity
             THEN cartRefuse(w, "cartUpdate", u, pid, quantity, "InsufficientStock")
        ELSE IF n = 0
             THEN cartRefuse(w, "cartUpdate", u, pid, quantity, "ItemNotFound")
        ELSE cartSave(w, "cartUpdate", u, pid, quantity,
                      updateItemQuantity(carts[u], pid, quantity))
  /\ UNCHANGED <<products, created, orders, payments, emailQueue, now, sweep, audit>>

\* DELETE /api/cart/items/:productId
CartDeleteItem(w, u, pid) ==
  /\ h[w].pc = "idle"
  /\ IF ~carts[u].exists THEN cartRefuse(w, "cartRemove", u, pid, 0, "NotFound")
     ELSE cartSave(w, "cartRemove", u, pid, 0, removeItem(carts[u], pid))
  /\ UNCHANGED <<products, created, orders, payments, emailQueue, now, sweep, audit>>

\* DELETE /api/cart
CartDelete(w, u) ==
  /\ h[w].pc = "idle"
  /\ IF ~carts[u].exists THEN cartRefuse(w, "cartClear", u, 0, 0, "NotFound")
     ELSE cartSave(w, "cartClear", u, 0, 0, clearCart(carts[u]))
  /\ UNCHANGED <<products, created, orders, payments, emailQueue, now, sweep, audit>>

\* a loop without the test of the populated product: reading a field of null
\* is a TypeError
checkoutLineNoNullTest(loc) ==
  IF loc.i > Len(loc.cart.items)
  THEN [loc EXCEPT !.pc = "co_clear",
                   !.txOrder = [exists |-> TRUE, userId |-> loc.user, items |-> loc.items,
                                totalAmount |-> loc.total, status |-> "PENDING_PAYMENT",
                                paymentDeadline |-> now + PaymentWindow, createdAt |-> now]]
  ELSE LET line == loc.cart.items[loc.i]
           product == loc.prods[line.productId]
       IN IF ~product.exists THEN Finished(loc, "TypeError")
          ELSE IF product.availableStock < line.quantity THEN Finished(loc, "InsufficientStock")
          ELSE IF ~reserveGuard(product, line.quantity) THEN Finished(loc, "StockError")
          ELSE [loc EXCEPT !.pc = "co_reserve",
                           !.prods[line.productId] = reserveStock(product, line.quantity)]

\* ------------------------------------------------- POST /api/orders/checkout
\* The loop body up to its first await, for cart line loc.i: the two checks
\* that throw, or the mutated product copy whose save() is the next step.
\* After the last line: Order.create with the session (not visible until the
\* transaction commits); paymentDeadline is the schema default.
checkoutLine(loc) ==
  IF loc.i > Len(loc.cart.items)
  THEN [loc EXCEPT !.pc = "co_clear",
                   !.txOrder = [exists |-> TRUE, userId |-> loc.user, items |-> loc.items,
                                totalAmount |-> loc.total, status |-> "PENDING_PAYMENT",
                                paymentDeadline |-> now + PaymentWindow, createdAt |-> now]]
  ELSE LET line == loc.cart.items[loc.i]
           product == loc.prods[line.productId]
       IN IF ~product.exists THEN Finished(loc, "ProductNotFound")
          ELSE IF product.availableStock < line.quantity THEN Finished(loc, "InsufficientStock")
          ELSE IF ~reserveGuard(product, line.quantity) THEN Finished(loc, "StockError")
          ELSE [loc EXCEPT !.pc = "co_reserve",
                           !.prods[line.productId] = reserveStock(product, line.quantity)]

\* a check that refuses only a missing cart
cartIsMissing(cart) == ~cart.exists

\* if (!cart || cart.items.length === 0)
cartIsEmpty(cart) == ~cart.exists \/ Len(cart.items) = 0

\* Cart.findOne({ userId })
CheckoutFindCart(w, u) ==
  /\ h[w].pc = "idle"
  /\ Len(orders) + Cardinality({x \in Workers : h[x].op = "checkout" /\ h[x].pc # "idle"})
       < MaxOrders
  /\ h' = [h EXCEPT ![w] = [Idle0 EXCEPT !.op = "checkout", !.user = u, !.pc = "co_populate",
                                         !.cart = carts[u], !.pre = Pre]]
  /\ UNCHANGED <<products, created, carts, orders, payments, emailQueue, now, sweep, audit>>

\* .populate('items.productId'), the empty-cart check and the first line's checks
CheckoutPopulate(w) ==
  /\ h[w].pc = "co_populate"
  /\ LET loc == [h[w] EXCEPT !.prods = populate(h[w].cart.items), !.i = 1]
     IN h' = [h EXCEPT ![w] =
                IF cartIsEmpty(loc.cart)
                THEN Finished(loc, "EmptyCart")
                ELSE checkoutLine(loc)]
  /\ UNCHANGED <<products, created, carts, orders, payments, emailQueue, now, sweep, audit>>

\* product.reserveStock's save(), outside the transaction; then the order
\* item is pushed and the loop goes on to the next line
CheckoutReserve(w) ==
  /\ h[w].pc = "co_reserve"
  /\ LET loc == h[w]
         line == loc.cart.items[loc.i]
         pid == line.productId
         doc == loc.prods[pid]
         item == [productId |-> pid, quantity |-> line.quantity, priceAtPurchase |-> doc.price]
     IN IF products[pid].exists
        THEN /\ products' = [products EXCEPT ![pid] =
                               savePaths(@, doc, {"availableStock", "reservedStock"})]
             /\ h' = [h EXCEPT ![w] =
                        checkoutLine([loc EXCEPT !.items = Append(@, item),
                                                 !.total = @ + doc.price * line.quantity,
                                                 !.i = @ + 1])]
        ELSE /\ products' = products
             /\ h' = [h EXCEPT ![w] = Finished(loc, "DocumentNotFound")]
  /\ UNCHANGED <<created, carts, orders, payments, emailQueue, now, sweep, audit>>

\* cart.clearCart()'s save(), which Mongoose guards with the copy's __v
\* because the whole array is set; then the response and the commit, which
\* makes the order visible.  A VersionError aborts the transaction.
CheckoutClear(w) ==
  /\ h[w].pc = "co_clear"
  /\ LET loc == h[w]
         u == loc.user
     IN IF carts[u].ver = loc.cart.ver
        THEN /\ carts' = [carts EXCEPT ![u] = savePaths(@, clearCart(loc.cart), {"items", "ver"})]
             /\ orders' = Append(orders, loc.txOrder)
             /\ h' = [h EXCEPT ![w] = [Finished(loc, "ok") EXCEPT !.oid = Len(orders) + 1]]
        ELSE /\ UNCHANGED <<carts, orders>>
             /\ h' = [h EXCEPT ![w] = Finished(loc, "VersionError")]
  /\ UNCHANGED <<products, created, payments, emailQueue, now, sweep, audit>>

\* ---------------------------------------------------- POST /api/orders/:id/pay
\* the ownership and status checks of the handler
payOwner(order, user) == order.userId = user

\* a status check that lets a PAID order through
payStatusOkLoose(order) == order.status \in {"PENDING_PAYMENT", "PAID"}

payStatusOk(order) == order.status = "PENDING_PAYMENT"

\* The release loop of the expiry branch up to its first await, for line
\* loc.i: a null product is a TypeError, a failed guard throws, otherwise
\* the mutated copy is saved next.  After the last line the handler throws
\* 'Order has expired'.
payReleaseLine(loc) ==
  IF loc.i > Len(loc.order.items) THEN Finished(loc, "OrderExpired")
  ELSE LET item == loc.order.items[loc.i]
           product == loc.prods[item.productId]
       IN IF ~product.exists THEN Finished(loc, "TypeError")
          ELSE IF ~releaseGuard(product, item.quantity) THEN Finished(loc, "StockError")
          ELSE [loc EXCEPT !.pc = "pay_release",
                           !.prods[item.productId] = releaseReservedStock(product, item.quantity)]

\* The confirm loop up to its first await, for line loc.i; stock below zero
\* fails save()'s validation.  After the last line: emailQueue.add.
payConfirmLine(loc) ==
  IF loc.i > Len(loc.order.items) THEN [loc EXCEPT !.pc = "pay_enqueue"]
  ELSE LET item == loc.order.items[loc.i]
           product == loc.prods[item.productId]
           doc == confirmStockDeduction(product, item.quantity)
       IN IF ~product.exists THEN Finished(loc, "TypeError")
          ELSE IF ~confirmGuard(product, item.quantity) THEN Finished(loc, "StockError")
          ELSE IF ~productValid(doc) THEN Finished(loc, "ValidationError")
          ELSE [loc EXCEPT !.pc = "pay_confirm", !.prods[item.productId] = doc]

\* Order.findById(req.params.id)
PayFind(w, u, oid) ==
  /\ h[w].pc = "idle"
  /\ LET req == [Idle0 EXCEPT !.op = "pay", !.user = u, !.oid = oid, !.pre = Pre]
     IN h' = [h EXCEPT ![w] =
                IF oid > Len(orders) THEN Finished(req, "NotFound")
                ELSE [req EXCEPT !.pc = "pay_populate", !.order = orders[oid]]]
  /\ UNCHANGED <<products, created, carts, orders, payments, emailQueue, now, sweep, audit>>

\* a handler that looks at the status and the deadline before the owner
PayPopulateOwnerLast(w) ==
  /\ h[w].pc = "pay_populate"
  /\ LET loc == [h[w] EXCEPT !.prods = populate(h[w].order.items)]
     IN h' = [h EXCEPT ![w] =
                IF ~payStatusOk(loc.order) THEN Finished(loc, "InvalidState")
                ELSE IF isExpired(loc.order, now) THEN [loc EXCEPT !.pc = "pay_cancel"]
                ELSE IF ~payOwner(loc.order, loc.user) THEN Finished(loc, "Forbidden")
                ELSE [loc EXCEPT !.pc = "pay_save",
                                 !.txPay = [exists |-> TRUE, orderId |-> loc.oid,
                                            amount |-> loc.order.totalAmount,
                                            status |-> "SUCCESS"]]]
  /\ UNCHANGED <<products, created, carts, orders, payments, emailQueue, now, sweep, audit>>

\* .populate('items.productId'), then the handler's checks in their order;
\* on the payment path Payment.create with the session (not visible until
\* the transaction commits)
PayPopulate(w) ==
  /\ h[w].pc = "pay_populate"
  /\ LET loc == [h[w] EXCEPT !.prods = populate(h[w].order.items)]
     IN h' = [h EXCEPT ![w] =
                IF ~payOwner(loc.order, loc.user) THEN Finished(loc, "Forbidden")
                ELSE IF ~payStatusOk(loc.order) THEN Finished(loc, "InvalidState")
                ELSE IF isExpired(loc.order, now) THEN [loc EXCEPT !.pc = "pay_cancel"]
                ELSE [loc EXCEPT !.pc = "pay_save",
                                 !.txPay = [exists |-> TRUE, orderId |-> loc.oid,
                                            amount |-> loc.order.totalAmount,
                                            status |-> "SUCCESS"]]]
  /\ UNCHANGED <<products, created, carts, orders, payments, emailQueue, now, sweep, audit>>

\* order.status = 'CANCELLED'; order.save()  (outside the transaction)
PayCancel(w) ==
  /\ h[w].pc = "pay_cancel"
  /\ orders' = [orders EXCEPT ![h[w].oid].status = "CANCELLED"]
  /\ h' = [h EXCEPT ![w] = payReleaseLine([h[w] EXCEPT !.order.status = "CANCELLED", !.i = 1])]
  /\ UNCHANGED <<products, created, carts, payments, emailQueue, now, sweep, audit>>

\* product.releaseReservedStock's save()
PayRelease(w) ==
  /\ h[w].pc = "pay_release"
  /\ LET loc == h[w]
         pid == loc.order.items[loc.i].productId
     IN IF products[pid].exists
        THEN /\ products' = [products EXCEPT ![pid] =
                               savePaths(@, loc.prods[pid], {"reservedStock", "availableStock"})]
             /\ h' = [h EXCEPT ![w] = payReleaseLine([loc EXCEPT !.i = @ + 1])]
        ELSE /\ products' = products
             /\ h' = [h EXCEPT ![w] = Finished(loc, "DocumentNotFound")]
  /\ audit' = payReleased(h[w].oid, h[w].order.items[h[w].i].productId)
  /\ UNCHANGED <<created, carts, orders, payments, emailQueue, now, sweep>>

\* order.status = 'PAID'; order.save()  (outside the transaction)
PaySave(w) ==
  /\ h[w].pc = "pay_save"
  /\ orders' = [orders EXCEPT ![h[w].oid].status = "PAID"]
  /\ h' = [h EXCEPT ![w] = payConfirmLine([h[w] EXCEPT !.order.status = "PAID", !.i = 1])]
  /\ UNCHANGED <<products, created, carts, payments, emailQueue, now, sweep, audit>>

\* product.confirmStockDeduction's save()
PayConfirm(w) ==
  /\ h[w].pc = "pay_confirm"
  /\ LET loc == h[w]
         pid == loc.order.items[loc.i].productId
     IN IF products[pid].exists
        THEN /\ products' = [products EXCEPT ![pid] =
                               savePaths(@, loc.prods[pid], {"reservedStock", "stock"})]
             /\ h' = [h EXCEPT ![w] = payConfirmLine([loc EXCEPT !.i = @ + 1])]
        ELSE /\ products' = products
             /\ h' = [h EXCEPT ![w] = Finished(loc, "DocumentNotFound")]
  /\ audit' = confirmed(h[w].oid, h[w].order.items[h[w].i].productId)
  /\ UNCHANGED <<created, carts, orders, payments, emailQueue, now, sweep>>

\* a handler that adds the job twice
PayEnqueueTwice(w, delivered) ==
  /\ h[w].pc = "pay_enqueue"
  /\ LET loc == h[w]
         job == [orderId |-> loc.oid, userId |-> loc.user, userEmail |-> loc.user,
                 totalAmount |-> loc.order.totalAmount]
     IN IF delivered
        THEN /\ emailQueue' = Append(Append(emailQueue, job), job)
             /\ payments' = Append(payments, loc.txPay)
             /\ h' = [h EXCEPT ![w] = [Finished(loc, "ok") EXCEPT !.enqueue = "added"]]
        ELSE /\ UNCHANGED <<emailQueue, payments>>
             /\ h' = [h EXCEPT ![w] =
                        [Finished(loc, "EnqueueFailed") EXCEPT !.enqueue = "rejected"]]
  /\ UNCHANGED <<products, created, carts, orders, now, sweep, audit>>

\* emailQueue.add inside the transaction callback: when it resolves the
\* response goes out and the transaction commits the payment record; when it
\* rejects (the queue's Redis is unreachable) the callback throws and the
\* transaction is aborted
PayEnqueue(w, delivered) ==
  /\ h[w].pc = "pay_enqueue"
  /\ LET loc == h[w]
         job == [orderId |-> loc.oid, userId |-> loc.user, userEmail |-> loc.user,
                 totalAmount |-> loc.order.totalAmount]
     IN IF delivered
        THEN /\ emailQueue' = Append(emailQueue, job)
             /\ payments' = Append(payments, loc.txPay)
             /\ h' = [h EXCEPT ![w] = [Finished(loc, "ok") EXCEPT !.enqueue = "added"]]
        ELSE /\ UNCHANGED <<emailQueue, payments>>
             /\ h' = [h EXCEPT ![w] =
                        [Finished(loc, "EnqueueFailed") EXCEPT !.enqueue = "rejected"]]
  /\ UNCHANGED <<products, created, carts, orders, now, sweep, audit>>

\* ------------------------------------------ PATCH /api/admin/orders/:id/status
\* Order.findById and updateStatus's guard on the loaded document
AdminFind(w, oid, target) ==
  /\ h[w].pc = "idle"
  /\ LET req == [Idle0 EXCEPT !.op = "admin", !.oid = oid, !.target = target, !.pre = Pre]
     IN h' = [h EXCEPT ![w] =
                IF oid > Len(orders) THEN Finished(req, "NotFound")
                ELSE IF ~updateStatusAllowed(orders[oid], target)
                     THEN Finished(req, "InvalidTransition")
                ELSE [req EXCEPT !.pc = "ad_save", !.order = orders[oid]]]
  /\ UNCHANGED <<products, created, carts, orders, payments, emailQueue, now, sweep, audit>>

\* an update that answers with the new status and saves nothing
AdminSaveUnsaved(w) ==
  /\ h[w].pc = "ad_save"
  /\ h' = [h EXCEPT ![w] = Finished([h[w] EXCEPT !.order.status = h[w].target], "ok")]
  /\ UNCHANGED <<products, created, carts, orders, payments, emailQueue, now, sweep, audit>>

\* updateStatus: this.status = newStatus; this.save(); the response carries
\* the document the handler holds
AdminSave(w) ==
  /\ h[w].pc = "ad_save"
  /\ orders' = [orders EXCEPT ![h[w].oid].status = h[w].target]
  /\ h' = [h EXCEPT ![w] = Finished([h[w] EXCEPT !.order.status = h[w].target], "ok")]
  /\ UNCHANGED <<products, created, carts, payments, emailQueue, now, sweep, audit>>

\* ------------------------------------------- cancelExpiredOrders (cron job)
\* the orders of the store that satisfy the query, as [oid, order] copies
RECURSIVE selectExpired(_, _)
selectExpired(n, time) ==
  IF n = 0 THEN << >>
  ELSE LET rest == selectExpired(n - 1, time)
       IN IF sweepSelects(orders[n], time)
          THEN Append(rest, [oid |-> n, order |-> orders[n]])
          ELSE rest

\* populate over the whole result: one shared copy per product
populateAll(docs) ==
  [p \in ProductIds |->
     IF \E d \in 1..Len(docs) : \E n \in 1..Len(docs[d].order.items) :
          docs[d].order.items[n].productId = p
     THEN products[p] ELSE NoProduct]

\* the loop moves to the next order, or the run ends
sweepEnd(sw) ==
  [SweepIdle EXCEPT !.ran = {sw.docs[d].oid : d \in 1..Len(sw.docs)}, !.failed = sw.failed]

sweepNextOrder(sw) ==
  IF sw.k + 1 > Len(sw.docs) THEN sweepEnd(sw)
  ELSE [sw EXCEPT !.pc = "sw_cancel", !.k = @ + 1, !.i = 0]

\* a sweep without the per-order try/catch: the first error ends the run
sweepCaughtAbort(sw) == sweepEnd([sw EXCEPT !.failed = @ \cup {sw.docs[sw.k].oid}])

\* catch (error) { console.error(...) }: the error is logged and the loop goes on
sweepCaught(sw) == sweepNextOrder([sw EXCEPT !.failed = @ \cup {sw.docs[sw.k].oid}])

\* The release loop of order sw.k up to its next await, from line sw.i on: a
\* null product is skipped, a failed guard throws into the per-order catch.
RECURSIVE sweepLine(_)
sweepLine(sw) ==
  LET items == sw.docs[sw.k].order.items
  IN IF sw.i > Len(items) THEN sweepNextOrder(sw)
     ELSE LET item == items[sw.i]
              product == sw.prods[item.productId]
          IN IF ~product.exists THEN sweepLine([sw EXCEPT !.i = @ + 1])
             ELSE IF ~releaseGuard(product, item.quantity) THEN sweepCaught(sw)
             ELSE [sw EXCEPT !.pc = "sw_release",
                             !.prods[item.productId] =
                                releaseReservedStock(product, item.quantity)]

\* Order.find({ status: 'PENDING_PAYMENT', paymentDeadline: { $lt: new Date() } })
\* (a run that finds nothing returns at once and changes nothing)
SweepFind ==
  /\ sweep.pc = "idle"
  /\ selectExpired(Len(orders), now) # << >>
  /\ sweep' = [SweepIdle EXCEPT !.pc = "sw_populate", !.docs = selectExpired(Len(orders), now),
                                !.pre = Pre]
  /\ UNCHANGED <<products, created, carts, orders, payments, emailQueue, now, h, audit>>

\* .populate('items.productId')
SweepPopulate ==
  /\ sweep.pc = "sw_populate"
  /\ sweep' = [sweep EXCEPT !.pc = "sw_cancel", !.prods = populateAll(sweep.docs), !.k = 1]
  /\ UNCHANGED <<products, created, carts, orders, payments, emailQueue, now, h, audit>>

\* order.status = 'CANCELLED'; order.save()
SweepCancel ==
  /\ sweep.pc = "sw_cancel"
  /\ orders' = [orders EXCEPT ![sweep.docs[sweep.k].oid].status = "CANCELLED"]
  /\ sweep' = sweepLine([sweep EXCEPT !.i = 1])
  /\ UNCHANGED <<products, created, carts, payments, emailQueue, now, h, audit>>

\* product.releaseReservedStock's save(); an error goes to the per-order catch
SweepRelease ==
  /\ sweep.pc = "sw_release"
  /\ LET pid == sweep.docs[sweep.k].order.items[sweep.i].productId
     IN IF products[pid].exists
        THEN /\ products' = [products EXCEPT ![pid] =
                               savePaths(@, sweep.prods[pid], {"reservedStock", "availableStock"})]
             /\ sweep' = sweepLine([sweep EXCEPT !.i = @ + 1])
        ELSE /\ products' = products
             /\ sweep' = sweepCaught(sweep)
  /\ audit' = sweepReleased(sweep.docs[sweep.k].oid,
                             sweep.docs[sweep.k].order.items[sweep.i].productId)
  /\ UNCHANGED <<created, carts, orders, payments, emailQueue, now, h>>

\* ------------------------------------------------------------------ the clock
Tick(d) ==
  /\ now + d <= MaxTime
  /\ now' = now + d
  /\ UNCHANGED <<products, created, carts, orders, payments, emailQueue, h, sweep, audit>>

\* ---------------------------------------------------------------- the system
\* a request arrives at worker w: the first query of its handler
CheckoutRequest(w) == \E u \in Users : CheckoutFindCart(w, u)

PayRequest(w) == \E u \in Users, oid \in 1..MaxOrders : PayFind(w, u, oid)

AdminRequest(w) == \E oid \in 1..MaxOrders, target \in Statuses : AdminFind(w, oid, target)

PutRequest(w) == \E pid \in ProductIds, stock \in 0..MaxStock : ProductPutFind(w, pid, stock)

\* the handler at worker w gets the answer of its query or save
CheckoutStep(w) == CheckoutPopulate(w) \/ CheckoutReserve(w) \/ CheckoutClear(w)

PayStep(w) ==
  \/ PayPopulate(w)
  \/ PayCancel(w)
  \/ PayRelease(w)
  \/ PaySave(w)
  \/ PayConfirm(w)
  \/ \E delivered \in BOOLEAN : PayEnqueue(w, delivered)

\* the response is delivered and the worker is free again
Respond(w) ==
  /\ h[w].pc = "done"
  /\ h' = [h EXCEPT ![w] = Idle0]
  /\ UNCHANGED <<products, created, carts, orders, payments, emailQueue, now, sweep, audit>>

SweepStep == SweepPopulate \/ SweepCancel \/ SweepRelease

Delete == \E pid \in ProductIds : ProductDelete(pid)

PutPrice == \E pid \in ProductIds, price \in 1..MaxPrice : ProductPutPrice(pid, price)

Clock == \E d \in ClockJumps : Tick(d)

AllIdle == sweep.pc = "idle" /\ \A w \in Workers : h[w].pc = "idle"

\* ------------------------------------------------------------ initial states
\* a cart as POST /api/cart/items leaves it: one $push per line
CartLines == [productId : ProductIds, quantity : 1..MaxQty]

CartItems ==
  {<< >>} \cup {<<a>> : a \in CartLines}
          \cup {s \in {<<a, b>> : a \in CartLines, b \in CartLines} :
                  s[1].productId # s[2].productId}

seedCart(items) ==
  IF items = << >> THEN NoCart ELSE [exists |-> TRUE, items |-> items, ver |-> Len(items)]

\* a product as POST /api/products creates it and PUT updates it, or deleted
\* again; the price is the product's number
seedProduct(p, stock) ==
  IF stock < 0 THEN NoProduct
  ELSE [exists |-> TRUE, price |-> p, stock |-> stock,
        availableStock |-> stock, reservedStock |-> 0]

\* The store before any checkout: the catalog and the users' carts.
InitShop(catalog, cartItems) ==
  /\ products = [p \in ProductIds |-> seedProduct(p, catalog[p])]
  /\ created = MaxProducts
  /\ carts = [u \in Users |-> seedCart(cartItems[u])]
  /\ orders = << >>
  /\ payments = << >>
  /\ emailQueue = << >>
  /\ now = 0
  /\ h = [w \in Workers |-> Idle0]
  /\ sweep = SweepIdle
  /\ audit = NoAudit

\* -------------------------------------------------------- one request at a time
\* Any catalog (a product may be gone) and any carts of at most n lines in all.
InitLines(n) ==
  \E catalog \in [ProductIds -> -1..MaxStock], cartItems \in [Users -> CartItems] :
    /\ Cardinality({x \in Users \X (1..2) : x[2] <= Len(cartItems[x[1]])}) <= n
    /\ InitShop(catalog, cartItems)

MaxLines == 2

\* Checkout alone.
NextCheckout ==
  \/ AllIdle /\ CheckoutRequest(1)
  \/ CheckoutStep(1)
  \/ Respond(1)

SpecCheckout == InitLines(MaxLines) /\ [][NextCheckout]_vars

\* The life of orders without the admin, one request at a time, all served
\* by worker 1: a request arrives only when none is in flight.
NextSeq ==
  \/ AllIdle /\ CheckoutRequest(1)
  \/ AllIdle /\ PayRequest(1)
  \/ AllIdle /\ SweepFind
  \/ AllIdle /\ Delete
  \/ AllIdle /\ Clock
  \/ CheckoutStep(1)
  \/ PayStep(1)
  \/ Respond(1)
  \/ SweepStep

Spec == InitLines(MaxLines) /\ [][NextSeq]_vars

\* The same with the admin's status updates, on carts of fewer lines.
MaxAdminLines == 1

NextAdmin ==
  \/ AllIdle /\ CheckoutRequest(1)
  \/ AllIdle /\ PayRequest(1)
  \/ AllIdle /\ AdminRequest(1)
  \/ AllIdle /\ SweepFind
  \/ AllIdle /\ Delete
  \/ AllIdle /\ Clock
  \/ CheckoutStep(1)
  \/ PayStep(1)
  \/ AdminSave(1)
  \/ Respond(1)
  \/ SweepStep

SpecAdmin == InitLines(MaxAdminLines) /\ [][NextAdmin]_vars

\* The same with price updates between the requests.
NextPrice ==
  \/ NextAdmin
  \/ AllIdle /\ PutPrice

SpecPrice == InitLines(MaxAdminLines) /\ [][NextPrice]_vars

\* ------------------------------------------------------- concurrent requests
\* One product in the catalog; every user's cart is empty or holds one line
\* of it.
InitRace ==
  \E stock \in 1..MaxStock, qty \in [Users -> 0..MaxQty] :
    InitShop([p \in ProductIds |-> IF p = 1 THEN stock ELSE -1],
             [u \in Users |-> IF qty[u] = 0 THEN << >>
                              ELSE <<[productId |-> 1, quantity |-> qty[u]]>>])

\* two checkouts at once
NextCheckoutRace ==
  \/ \E w \in Workers : CheckoutRequest(w)
  \/ \E w \in Workers : CheckoutStep(w)
  \/ \E w \in Workers : Respond(w)

SpecCheckoutRace == InitRace /\ [][NextCheckoutRace]_vars

\* Worker 1 serves checkouts and the owners' payments one after the other
\* while the sweep runs and time passes, in any interleaving.
OwnerPayRequest(w) == \E oid \in 1..Len(orders) : PayFind(w, orders[oid].userId, oid)

NextRace ==
  \/ CheckoutRequest(1)
  \/ OwnerPayRequest(1)
  \/ SweepFind
  \/ Clock
  \/ CheckoutStep(1)
  \/ PayStep(1)
  \/ Respond(1)
  \/ SweepStep

SpecRace == InitRace /\ [][NextRace]_vars

\* Two pay requests at once: worker 1 places the orders, then their owners
\* pay on any worker, before or after the deadline.
NextPayRace ==
  \/ AllIdle /\ CheckoutRequest(1)
  \/ AllIdle /\ Clock
  \/ CheckoutStep(1)
  \/ \E w \in Workers : OwnerPayRequest(w)
  \/ \E w \in Workers : PayStep(w)
  \/ \E w \in Workers : Respond(w)

SpecPayRace == InitRace /\ [][NextPayRace]_vars

\* One request at a time with the scheduling the program has: a request or a
\* run that has started goes on to its end, and the cron job starts a run
\* every minute, so that a run starts whenever expired orders keep waiting.
FairSeq ==
  /\ SF_vars(AllIdle /\ SweepFind)
  /\ WF_vars(SweepStep)
  /\ WF_vars(CheckoutStep(1))
  /\ WF_vars(PayStep(1))
  /\ WF_vars(Respond(1))

SpecFair == InitLines(MaxLines) /\ [][NextSeq]_vars /\ FairSeq

\* ------------------------------------------------------- the ledger alone
\* Ledger methods called one at a time on the products of any catalog; slot 1
\* holds the last call and slot 2 the call before it.
NextLedger ==
  \/ \E pid \in ProductIds, q \in 1..MaxQty : LedgerReserve(1, 2, pid, q)
  \/ \E pid \in ProductIds, q \in 1..MaxQty : LedgerRelease(1, 2, pid, q)
  \/ \E pid \in ProductIds, q \in 1..MaxQty : LedgerConfirm(1, 2, pid, q)

SpecLedger == InitLines(0) /\ [][NextLedger]_vars

\* Checkouts one at a time, with ledger methods called between them; slot 2
\* holds the last ledger call.
NextLedgerCheckout ==
  \/ AllIdle /\ CheckoutRequest(1)
  \/ CheckoutStep(1)
  \/ Respond(1)
  \/ AllIdle /\ \E pid \in ProductIds, q \in 1..MaxQty : LedgerReserve(2, 2, pid, q)
  \/ AllIdle /\ \E pid \in ProductIds, q \in 1..MaxQty : LedgerRelease(2, 2, pid, q)
  \/ AllIdle /\ \E pid \in ProductIds, q \in 1..MaxQty : LedgerConfirm(2, 2, pid, q)

SpecLedgerCheckout == InitLines(MaxLines) /\ [][NextLedgerCheckout]_vars

\* ------------------------------------------------------------ the catalog
\* From an empty store: products are created, users fill their carts and
\* check out, and the stock of products is updated, one request at a time.
NextCatalog ==
  \/ AllIdle /\ \E stock \in 0..MaxStock, price \in 1..MaxPrice : ProductCreate(stock, price)
  \/ AllIdle /\ \E u \in Users, pid \in ProductIds, q \in 1..MaxQty : CartAddItem(u, pid, q)
  \/ AllIdle /\ CheckoutRequest(1)
  \/ AllIdle /\ PutRequest(1)
  \/ CheckoutStep(1)
  \/ ProductPutSave(1)
  \/ Respond(1)

SpecCatalog == InitEmpty /\ [][NextCatalog]_vars

\* ------------------------------------------------------------ the carts
\* the quantities a cart request may carry: none or zero, negative, positive
CartQuantities == -1..MaxQty

\* Any catalog and no carts yet: the users' cart requests, one at a time.
NextCart ==
  \/ AllIdle /\ \E u \in Users, pid \in ProductIds, q \in CartQuantities : CartPost(1, u, pid, q)
  \/ AllIdle /\ \E u \in Users, pid \in ProductIds, q \in CartQuantities : CartPut(1, u, pid, q)
  \/ AllIdle /\ \E u \in Users, pid \in ProductIds : CartDeleteItem(1, u, pid)
  \/ AllIdle /\ \E u \in Users : CartDelete(1, u)
  \/ Respond(1)

SpecCart == InitLines(0) /\ [][NextCart]_vars

\* ------------------------------------------------- the sweep against DELETE
\* Checkouts one at a time, then the cron sweep while DELETE /api/products/:id
\* requests arrive between its awaits: a release of the run can throw.
NextSweepDelete ==
  \/ AllIdle /\ CheckoutRequest(1)
  \/ CheckoutStep(1)
  \/ Respond(1)
  \/ AllIdle /\ Clock
  \/ AllIdle /\ SweepFind
  \/ SweepStep
  \/ h[1].pc = "idle" /\ Delete

SpecSweepDelete == InitLines(MaxLines) /\ [][NextSweepDelete]_vars

\* ================================================================ properties
\* C1: in every reachable state every product has availableStock >= 0,
\* reservedStock >= 0 and stock = availableStock + reservedStock.
StockLedgerBalanced ==
  \A p \in ProductIds :
    products[p].exists =>
      /\ products[p].availableStock >= 0
      /\ products[p].reservedStock >= 0
      /\ products[p].stock = products[p].availableStock + products[p].reservedStock

\* the quantity the orders of the store hold of product p
RECURSIVE orderedQty(_, _)
orderedQty(n, p) ==
  IF n = 0 THEN 0
  ELSE orderedQty(n - 1, p)
       + (IF \E k \in 1..Len(orders[n].items) : orders[n].items[k].productId = p
          THEN (CHOOSE it \in {orders[n].items[k] : k \in 1..Len(orders[n].items)} :
                  it.productId = p).quantity
          ELSE 0)

\* the checkouts of two users' carts that began from the same store, both
\* answered
racedCheckouts(w1, w2) ==
  /\ w1 # w2 /\ h[w1].user # h[w2].user
  /\ h[w1].pc = "done" /\ h[w1].op = "checkout" /\ h[w1].cart.exists
  /\ h[w2].pc = "done" /\ h[w2].op = "checkout" /\ h[w2].cart.exists
  /\ h[w1].pre = h[w2].pre

\* C2: of two concurrent checkouts of one product, each asking at most
\* availableStock and together more than it, exactly one reserves and the
\* other fails with InsufficientStock; the quantity ordered of a product
\* never exceeds the stock that was available.
CheckoutRaceOneWinner ==
  /\ \A w1, w2 \in Workers :
       racedCheckouts(w1, w2) =>
         LET avail == h[w1].pre.products[1].availableStock
             q1 == h[w1].cart.items[1].quantity
             q2 == h[w2].cart.items[1].quantity
         IN (q1 <= avail /\ q2 <= avail /\ q1 + q2 > avail) =>
              {h[w1].result, h[w2].result} = {"ok", "InsufficientStock"}
  /\ orderedQty(Len(orders), 1) <= products[1].stock

\* C3: when a checkout fails on a cart line, every product's counters are
\* what they were before the call and the call left no order.
FailedCheckoutLeavesNothing ==
  \A w \in Workers :
    (/\ h[w].pc = "done" /\ h[w].op = "checkout"
     /\ h[w].result \in {"ProductNotFound", "InsufficientStock"}) =>
      /\ products = h[w].pre.products
      /\ orders = h[w].pre.orders

\* C4: when pay's expiry branch and the sweep both handle an order past its
\* deadline, one of them performs the release and the order's quantity is
\* moved from reservedStock to availableStock once, never twice: no order
\* has units added to availableStock by both.
ReleasedByOneOnly ==
  \A o \in 1..Len(orders) : ~(audit[o].payReleased > 0 /\ audit[o].sweepReleased > 0)

\* C5: an order's reservation is resolved one way only: no order has units
\* both confirmed out of stock and released back to availableStock, so the
\* sweep releases nothing of an order that a pay confirmed.
NeverConfirmedAndReleased ==
  \A o \in 1..Len(orders) :
    ~(audit[o].confirmed > 0 /\ audit[o].payReleased + audit[o].sweepReleased > 0)

\* the units an order holds, over its first n lines
RECURSIVE orderUnits(_, _)
orderUnits(items, n) == IF n = 0 THEN 0 ELSE orderUnits(items, n - 1) + items[n].quantity

\* the quantity order o holds of product p
lineQty(o, p) ==
  LET lines == {k \in 1..Len(orders[o].items) : orders[o].items[k].productId = p}
  IN IF lines = {} THEN 0 ELSE orders[o].items[CHOOSE k \in lines : TRUE].quantity

\* a pay call on an order of the store has been answered
payAnswered(w) == h[w].pc = "done" /\ h[w].op = "pay" /\ h[w].oid <= Len(orders)

\* the products of order o are all in the catalog
productsKept(o) == \A p \in ProductIds : lineQty(o, p) > 0 => products[p].exists

\* C6: whenever a pay call ends, either the order is PAID, a SUCCESS payment
\* record of it exists and every line's quantity is confirmed, or none of
\* the three is visible (stated for the orders whose products are all still
\* in the catalog).
PayAllOrNothing ==
  \A w \in Workers :
    (payAnswered(w) /\ productsKept(h[w].oid)) =>
      LET o == h[w].oid
          paid == orders[o].status = "PAID"
          recorded == \E k \in 1..Len(payments) :
                        payments[k].orderId = o /\ payments[k].status = "SUCCESS"
          units == orderUnits(orders[o].items, Len(orders[o].items))
      IN \/ paid /\ recorded /\ audit[o].confirmed = units
         \/ ~paid /\ ~recorded /\ audit[o].confirmed = 0

\* the allowed transition table, as pairs <<current, target>>
AllowedTransitions ==
  {<<"PENDING_PAYMENT", "PAID">>, <<"PENDING_PAYMENT", "CANCELLED">>,
   <<"PAID", "SHIPPED">>, <<"PAID", "CANCELLED">>, <<"SHIPPED", "DELIVERED">>}

\* C7: whichever operation changes the status of an order, the change is a
\* pair of the allowed transition table; a CANCELLED or DELIVERED order
\* never changes status again.
StatusFollowsTable ==
  [][\A o \in 1..Len(orders) :
       orders'[o].status # orders[o].status =>
         <<orders[o].status, orders'[o].status>> \in AllowedTransitions]_vars

\* an admin status update on an order of the store has been answered
adminAnswered(w) == h[w].pc = "done" /\ h[w].op = "admin" /\ h[w].oid <= Len(orders)

\* C8: for every pair (current, target) outside the allowed transition table,
\* target = current included, updateStatus fails with the invalid-transition
\* error and the status stays; for every pair of the table the status
\* becomes the target.
UpdateStatusFollowsTable ==
  \A w \in Workers :
    adminAnswered(w) =>
      LET current == h[w].pre.orders[h[w].oid].status
      IN IF <<current, h[w].target>> \in AllowedTransitions
         THEN h[w].result = "ok" /\ orders[h[w].oid].status = h[w].target
         ELSE h[w].result = "InvalidTransition" /\ orders[h[w].oid].status = current

\* C8's case: a PAID order asked to become PAID again is refused
SelfTransitionRefused ==
  \E w \in Workers :
    /\ adminAnswered(w)
    /\ h[w].pre.orders[h[w].oid].status = "PAID"
    /\ h[w].target = "PAID"
    /\ h[w].result = "InvalidTransition"

\* C9: pay by the owner on a PENDING_PAYMENT order past its deadline fails
\* with the order-expired error; afterwards the order is CANCELLED, every
\* line's quantity is back in availableStock and out of reservedStock, and
\* no payment record was created.
ExpiredPayCancelsAndReleases ==
  \A w \in Workers :
    (/\ payAnswered(w)
     /\ h[w].user = orders[h[w].oid].userId
     /\ isExpired(h[w].pre.orders[h[w].oid], now)) =>
      /\ h[w].result = "OrderExpired"
      /\ orders[h[w].oid].status = "CANCELLED"
      /\ \A p \in ProductIds :
           lineQty(h[w].oid, p) > 0 =>
             /\ products[p].availableStock =
                  h[w].pre.products[p].availableStock + lineQty(h[w].oid, p)
             /\ products[p].reservedStock =
                  h[w].pre.products[p].reservedStock - lineQty(h[w].oid, p)
      /\ payments = h[w].pre.payments

\* C10: pay by the owner on an order that is not PENDING_PAYMENT fails with
\* InvalidState, and pay on such an order changes nothing whoever calls: no
\* stock counter, no payment record, no order status; a retried pay on a
\* PAID order confirms nothing a second time.
PayOnSettledOrderRefused ==
  \A w \in Workers :
    (payAnswered(w) /\ h[w].pre.orders[h[w].oid].status # "PENDING_PAYMENT") =>
      /\ h[w].user = orders[h[w].oid].userId => h[w].result = "InvalidState"
      /\ h[w].result \in {"InvalidState", "Forbidden"}
      /\ products = h[w].pre.products
      /\ orders = h[w].pre.orders
      /\ payments = h[w].pre.payments

\* C10's case: the owner's retried pay on the order that is already PAID
RetriedPayRefused ==
  \E w \in Workers :
    /\ payAnswered(w)
    /\ h[w].user = orders[h[w].oid].userId
    /\ h[w].pre.orders[h[w].oid].status = "PAID"
    /\ audit[h[w].oid].confirmed > 0
    /\ h[w].result = "InvalidState"

\* the SUCCESS payment records of order o in the store
successPayments(o) ==
  {k \in 1..Len(payments) : payments[k].orderId = o /\ payments[k].status = "SUCCESS"}

\* two pay calls of the owner for order o that both began while the order
\* was PENDING_PAYMENT within its deadline, both answered
racedPays(w1, w2, o) ==
  /\ w1 # w2
  /\ payAnswered(w1) /\ h[w1].oid = o /\ h[w1].user = orders[o].userId
  /\ payAnswered(w2) /\ h[w2].oid = o /\ h[w2].user = orders[o].userId
  /\ h[w1].pre.orders[o].status = "PENDING_PAYMENT"
  /\ h[w2].pre.orders[o].status = "PENDING_PAYMENT"
  /\ now <= orders[o].paymentDeadline

\* C11: two concurrent pay calls for one PENDING_PAYMENT order within its
\* deadline behave as if run one after the other: they do not both succeed,
\* at most one SUCCESS payment record of the order exists, and no more than
\* the order's units are confirmed.
ConcurrentPaysSerialize ==
  \A o \in 1..Len(orders) :
    \A w1, w2 \in Workers :
      racedPays(w1, w2, o) =>
        /\ ~(h[w1].result = "ok" /\ h[w2].result = "ok")
        /\ Cardinality(successPayments(o)) <= 1
        /\ audit[o].confirmed <= orderUnits(orders[o].items, Len(orders[o].items))

\* the owner's pay on order o, which was PENDING_PAYMENT within its deadline
\* when the call began, has been answered
ownerPaidInTime(w) ==
  /\ payAnswered(w)
  /\ h[w].user = orders[h[w].oid].userId
  /\ h[w].pre.orders[h[w].oid].status = "PENDING_PAYMENT"
  /\ ~isExpired(h[w].pre.orders[h[w].oid], now)

\* order o is PAID, one SUCCESS payment record of its totalAmount was added,
\* and every line's quantity left reservedStock and stock, availableStock as
\* it was before the call of worker w
settled(w, o) ==
  /\ orders[o].status = "PAID"
  /\ payments = Append(h[w].pre.payments,
                       [exists |-> TRUE, orderId |-> o,
                        amount |-> orders[o].totalAmount, status |-> "SUCCESS"])
  /\ \A p \in ProductIds :
       lineQty(o, p) > 0 =>
         /\ products[p].reservedStock = h[w].pre.products[p].reservedStock - lineQty(o, p)
         /\ products[p].stock = h[w].pre.products[p].stock - lineQty(o, p)
         /\ products[p].availableStock = h[w].pre.products[p].availableStock

\* C12: pay by the owner on a PENDING_PAYMENT order within its deadline, with
\* no concurrent operation, succeeds: the order becomes PAID, one SUCCESS
\* payment record of the order's totalAmount is created, and every line's
\* quantity leaves reservedStock and stock while availableStock stays
\* (stated for the orders whose products are all still in the catalog).
OwnerPaySucceeds ==
  \A w \in Workers :
    (ownerPaidInTime(w) /\ productsKept(h[w].oid)) =>
      h[w].result = "ok" /\ settled(w, h[w].oid)

\* C13: when enqueueing the confirmation email fails during pay, the payment
\* is not unwound and the call is not answered as a failure: the order is
\* PAID, its SUCCESS payment record exists and its stock stays confirmed.
EnqueueFailureKeepsPayment ==
  \A w \in Workers :
    (payAnswered(w) /\ h[w].enqueue = "rejected") =>
      /\ h[w].result = "ok"
      /\ orders[h[w].oid].status = "PAID"
      /\ successPayments(h[w].oid) # {}
      /\ audit[h[w].oid].confirmed =
           orderUnits(orders[h[w].oid].items, Len(orders[h[w].oid].items))

\* order o is PENDING_PAYMENT past its deadline
overdue(o) ==
  /\ o <= Len(orders)
  /\ orders[o].status = "PENDING_PAYMENT"
  /\ orders[o].paymentDeadline < now

\* the units order o holds of products that are in the catalog
keptUnits(o) ==
  LET kept == {k \in 1..Len(orders[o].items) : products[orders[o].items[k].productId].exists}
      RECURSIVE sum(_)
      sum(S) == IF S = {} THEN 0
                ELSE LET k == CHOOSE x \in S : TRUE
                     IN orders[o].items[k].quantity + sum(S \ {k})
  IN sum(kept)

\* order o is CANCELLED and the units it holds of the products in the catalog
\* were added to availableStock
cancelledAndReleased(o) ==
  /\ o <= Len(orders)
  /\ orders[o].status = "CANCELLED"
  /\ audit[o].payReleased + audit[o].sweepReleased >= keptUnits(o)

\* C14: while the sweep keeps running, every order that is PENDING_PAYMENT
\* past its deadline is eventually CANCELLED with every line's quantity
\* returned to availableStock.
OverdueOrdersCancelled ==
  \A o \in 1..MaxOrders : overdue(o) ~> cancelledAndReleased(o)

\* C15: when a sweep run has ended, every order it selected is CANCELLED, and
\* every selected order whose own processing did not throw has had the units
\* of its lines with a product released by the sweep, also when the
\* processing of another order of the run threw.
SweepFailureIsolated ==
  sweep.pc = "idle" =>
    \A o \in sweep.ran :
      /\ orders[o].status = "CANCELLED"
      /\ o \notin sweep.failed => audit[o].sweepReleased >= keptUnits(o)

\* a run in which one order threw and another order was released
SweepWentOnAfterFailure ==
  /\ sweep.pc = "idle"
  /\ sweep.failed # {}
  /\ \E o \in sweep.ran \ sweep.failed :
       /\ orders[o].status = "CANCELLED"
       /\ audit[o].sweepReleased > 0
       /\ \E f \in sweep.failed : f < o

RECURSIVE linesAmount(_, _)
linesAmount(items, n) ==
  IF n = 0 THEN 0
  ELSE linesAmount(items, n - 1) + items[n].quantity * items[n].priceAtPurchase

checkoutSucceeded(w) == h[w].pc = "done" /\ h[w].op = "checkout" /\ h[w].result = "ok"

\* C16: when a checkout has succeeded, the store holds exactly one order more
\* than before the call; that order is PENDING_PAYMENT, its paymentDeadline is
\* its creation time plus 15 minutes, it has one line per cart line with the
\* cart's product and quantity and the product's price, its totalAmount is the
\* sum of quantity times priceAtPurchase, and each line's product has
\* availableStock lower and reservedStock higher by the line's quantity.
CheckoutCreatesOrder ==
  \A w \in Workers :
    checkoutSucceeded(w) =>
      LET loc == h[w]
          order == orders[loc.oid]
      IN /\ Len(orders) = Len(loc.pre.orders) + 1
         /\ loc.oid = Len(orders)
         /\ order.userId = loc.user
         /\ order.status = "PENDING_PAYMENT"
         /\ order.paymentDeadline = order.createdAt + PaymentWindow
         /\ order.createdAt = now
         /\ Len(order.items) = Len(loc.cart.items)
         /\ \A n \in 1..Len(order.items) :
              LET item == order.items[n]
                  line == loc.cart.items[n]
                  pid == line.productId
              IN /\ item.productId = pid
                 /\ item.quantity = line.quantity
                 /\ item.priceAtPurchase = loc.pre.products[pid].price
                 /\ products[pid].availableStock =
                      loc.pre.products[pid].availableStock - line.quantity
                 /\ products[pid].reservedStock =
                      loc.pre.products[pid].reservedStock + line.quantity
         /\ order.totalAmount = linesAmount(order.items, Len(order.items))

\* a checkout of a cart of two lines has succeeded
TwoLineCheckoutSucceeded ==
  \E w \in Workers :
    /\ checkoutSucceeded(w)
    /\ Len(h[w].cart.items) = 2
    /\ orders[h[w].oid].totalAmount > 2

orderFrame(order) == [order EXCEPT !.status = "PENDING_PAYMENT"]

\* C17: no step changes a stored order in anything but its status: the line
\* items, their priceAtPurchase and the totalAmount stay as created.
OrderLinesImmutable ==
  [][\A o \in 1..Len(orders) : orderFrame(orders'[o]) = orderFrame(orders[o])]_vars

\* a paid order whose product has since got another price
PaidOrderKeepsOldPrice ==
  \E o \in 1..Len(orders) : \E n \in 1..Len(orders[o].items) :
    LET item == orders[o].items[n]
    IN /\ orders[o].status = "PAID"
       /\ products[item.productId].exists
       /\ products[item.productId].price # item.priceAtPurchase
       /\ orders[o].totalAmount = linesAmount(orders[o].items, Len(orders[o].items))

nonTerminal(order) == order.status \in {"PENDING_PAYMENT", "PAID", "SHIPPED"}

\* C18: every product that a line of a PENDING_PAYMENT, PAID or SHIPPED order
\* refers to exists.
ReferencedProductsExist ==
  \A o \in 1..Len(orders) :
    nonTerminal(orders[o]) =>
      \A n \in 1..Len(orders[o].items) : products[orders[o].items[n].productId].exists

checkoutAnswered(w) == h[w].pc = "done" /\ h[w].op = "checkout"

\* C19: when a checkout was called with no cart or with a cart without items,
\* it is answered with EmptyCart, and the orders and the products are as
\* they were before the call.
EmptyCartRefused ==
  \A w \in Workers :
    checkoutAnswered(w) /\ (~h[w].cart.exists \/ h[w].cart.items = << >>) =>
      /\ h[w].result = "EmptyCart"
      /\ orders = h[w].pre.orders
      /\ products = h[w].pre.products

\* a cart cleared by an earlier checkout was refused
ClearedCartRefused ==
  \E w \in Workers :
    /\ checkoutAnswered(w)
    /\ h[w].cart.exists
    /\ h[w].cart.items = << >>
    /\ h[w].result = "EmptyCart"

\* C20: the step that ends a checkout with success leaves the user's cart
\* without items and no other cart changed; every other step of a checkout,
\* the one that ends it with a failure included, leaves every cart as it was.
CheckoutCartEffect ==
  [][\A w \in Workers :
       h'[w] # h[w] /\ h'[w].op = "checkout" =>
         IF h'[w].pc = "done" /\ h'[w].result = "ok"
         THEN /\ carts'[h'[w].user].exists
              /\ carts'[h'[w].user].items = << >>
              /\ \A u \in Users \ {h'[w].user} : carts'[u] = carts[u]
         ELSE carts' = carts]_vars

\* one user's checkout succeeded and emptied the cart, another user's failed
\* and that cart still has its lines
CartClearedAndCartKept ==
  \E w1, w2 \in Workers :
    /\ checkoutSucceeded(w1)
    /\ carts[h[w1].user].items = << >>
    /\ h[w1].cart.items # << >>
    /\ checkoutAnswered(w2)
    /\ h[w2].result \notin {"ok", "EmptyCart"}
    /\ carts[h[w2].user].items = h[w2].cart.items
    /\ h[w2].cart.items # << >>

payDone(w) == h[w].pc = "done" /\ h[w].op = "pay"

storeAsBefore(w) ==
  /\ products = h[w].pre.products
  /\ orders = h[w].pre.orders
  /\ payments = h[w].pre.payments

\* C21: a pay on an order that does not exist is answered NotFound, a pay by a
\* user who is not the order's owner is answered Forbidden, whatever the
\* order's status and deadline, and in both cases the products, the orders
\* and the payments are as before the call.
NonOwnerPayRefused ==
  \A w \in Workers :
    payDone(w) =>
      /\ h[w].oid > Len(h[w].pre.orders) => h[w].result = "NotFound" /\ storeAsBefore(w)
      /\ (h[w].oid <= Len(h[w].pre.orders) /\ h[w].pre.orders[h[w].oid].userId # h[w].user)
           => h[w].result = "Forbidden" /\ storeAsBefore(w)

\* a user who is not the owner was refused on a PENDING_PAYMENT order past
\* its deadline, which still holds its reservation
NonOwnerRefusedOnExpired ==
  \E w \in Workers :
    /\ payDone(w)
    /\ h[w].oid <= Len(orders)
    /\ orders[h[w].oid].userId # h[w].user
    /\ orders[h[w].oid].status = "PENDING_PAYMENT"
    /\ isExpired(orders[h[w].oid], now)
    /\ h[w].result = "Forbidden"
    /\ \E p \in ProductIds : products[p].reservedStock > 0

ledgerDone(w, op) == h[w].pc = "idle" /\ h[w].op = op

counters(doc) ==
  [stock |-> doc.stock, availableStock |-> doc.availableStock,
   reservedStock |-> doc.reservedStock]

\* C22: when releaseReservedStock(q) has returned on a product and the call
\* before it was a reserveStock(q) on the same product that went through, the
\* product's stock, availableStock and reservedStock are those it had before
\* the reservation.
ReserveThenReleaseRestores ==
  (/\ ledgerDone(1, "releaseReservedStock")
   /\ ledgerDone(2, "reserveStock")
   /\ h[2].result = "ok"
   /\ h[1].pid = h[2].pid
   /\ h[1].i = h[2].i)
  => /\ h[1].result = "ok"
     /\ counters(products[h[1].pid]) = counters(h[2].pre.products[h[1].pid])

\* a reserve of some of the available units, then their release
ReservedThenReleased ==
  /\ ledgerDone(1, "releaseReservedStock")
  /\ ledgerDone(2, "reserveStock")
  /\ h[2].result = "ok"
  /\ h[1].pid = h[2].pid
  /\ h[1].i = h[2].i
  /\ h[1].result = "ok"
  /\ h[1].pre.products[h[1].pid].reservedStock > h[1].i
  /\ products[h[1].pid].availableStock >= h[1].i

\* C23: when confirmStockDeduction(q) has returned on a product whose
\* reservedStock was at least q, the call went through, stock and
\* reservedStock are lower by q and availableStock is as before.
ConfirmDeductsStockAndReserved ==
  ledgerDone(1, "confirmStockDeduction") =>
    LET before == h[1].pre.products[h[1].pid]
        after == products[h[1].pid]
        q == h[1].i
    IN before.reservedStock >= q =>
         /\ h[1].result = "ok"
         /\ after.stock = before.stock - q
         /\ after.reservedStock = before.reservedStock - q
         /\ after.availableStock = before.availableStock

\* a confirm of the reserved units of a product that also has available units
ConfirmedBesideAvailable ==
  /\ ledgerDone(1, "confirmStockDeduction")
  /\ h[1].result = "ok"
  /\ products[h[1].pid].availableStock > 0
  /\ products[h[1].pid].stock < h[1].pre.products[h[1].pid].stock

\* the guard of ledger method op fails on doc for quantity q
guardFails(op, doc, q) ==
  IF op = "reserveStock" THEN doc.availableStock < q ELSE doc.reservedStock < q

\* cart line n of the checkout loc asks for more than was available
insufficientLine(loc, n) ==
  LET line == loc.cart.items[n]
  IN /\ loc.pre.products[line.productId].exists
     /\ loc.pre.products[line.productId].availableStock < line.quantity

coveredLine(loc, n) ==
  LET line == loc.cart.items[n]
  IN /\ loc.pre.products[line.productId].exists
     /\ loc.pre.products[line.productId].availableStock >= line.quantity

\* C24: a step in which a ledger method returns whose guard failed
\* (availableStock < q for reserveStock, reservedStock < q for the other two)
\* ends with the method's error and leaves the stored products as they were;
\* and a step that ends a checkout with a line asking for more than the
\* product's availableStock ends it with a failure, InsufficientStock when
\* the lines before it were covered, with that product's counters as they
\* were before the call.
LedgerGuardsReject ==
  [][/\ (h'[2] # h[2] /\ h'[2].op \in LedgerOps
          /\ guardFails(h'[2].op, products[h'[2].pid], h'[2].i))
         => h'[2].result = "StockError" /\ products' = products
     /\ (h[1].pc # "done" /\ h'[1].pc = "done" /\ h'[1].op = "checkout")
         => \A n \in 1..Len(h'[1].cart.items) :
              insufficientLine(h'[1], n) =>
                (LET pid == h'[1].cart.items[n].productId
                 IN /\ h'[1].result # "ok"
                    /\ ((\A m \in 1..(n - 1) : coveredLine(h'[1], m))
                         => h'[1].result = "InsufficientStock")
                    /\ products'[pid] = h'[1].pre.products[pid])]_vars

\* a checkout holds all units of a product, a further checkout of that
\* product was refused and the counters are still those of the reservation
CheckoutOfReservedOutProductRefused ==
  /\ checkoutAnswered(1)
  /\ h[1].result = "InsufficientStock"
  /\ \E n \in 1..Len(h[1].cart.items) :
       LET pid == h[1].cart.items[n].productId
       IN /\ insufficientLine(h[1], n)
          /\ products[pid].availableStock = 0
          /\ products[pid].reservedStock = products[pid].stock
          /\ \E o \in 1..Len(orders) :
               /\ orders[o].status = "PENDING_PAYMENT"
               /\ Len(orders[o].items) = 1
               /\ orders[o].items[1].productId = pid
               /\ orders[o].items[1].quantity = products[pid].reservedStock

adminDone(w) == h[w].pc = "done" /\ h[w].op = "admin"

\* C25: when an admin status update has been answered: for a missing order
\* the answer is NotFound; for an allowed transition the stored order has the
\* requested status, nothing else of it changed, and the answer carries the
\* order as stored; for any other transition the answer is InvalidTransition
\* and the orders are as before the call.
AdminUpdateApplies ==
  \A w \in Workers :
    adminDone(w) =>
      LET oid == h[w].oid
      IN IF oid > Len(h[w].pre.orders)
         THEN h[w].result = "NotFound" /\ orders = h[w].pre.orders
         ELSE IF h[w].target \in validTransitions(h[w].pre.orders[oid].status)
         THEN /\ h[w].result = "ok"
              /\ orders = [h[w].pre.orders EXCEPT ![oid].status = h[w].target]
              /\ h[w].order = orders[oid]
         ELSE /\ h[w].result = "InvalidTransition"
              /\ orders = h[w].pre.orders

\* a PAID order was set to SHIPPED and the answer carries the SHIPPED order
PaidOrderShipped ==
  \E w \in Workers :
    /\ adminDone(w)
    /\ h[w].oid <= Len(orders)
    /\ h[w].pre.orders[h[w].oid].status = "PAID"
    /\ h[w].target = "SHIPPED"
    /\ h[w].result = "ok"
    /\ h[w].order.status = "SHIPPED"
    /\ orders[h[w].oid].status = "SHIPPED"

\* the orders the last sweep run set to CANCELLED
sweepCancelled == {o \in sweep.ran : orders[o].status = "CANCELLED"}

\* C26: when a sweep run has ended, the value its call resolved to is the
\* number of orders the run cancelled.
SweepReturnsCount ==
  (sweep.pc = "idle" /\ sweep.ran # {}) => sweep.returned = Cardinality(sweepCancelled)

\* cart line n of the checkout loc refers to a product that was gone
missingLine(loc, n) == ~loc.pre.products[loc.cart.items[n].productId].exists

\* C27 as stated: a checkout of a cart with a line whose product is gone is
\* answered ProductNotFound, wherever the line stands in the cart.
MissingProductAlwaysNotFound ==
  \A w \in Workers :
    checkoutAnswered(w) =>
      \A n \in 1..Len(h[w].cart.items) :
        missingLine(h[w], n) => h[w].result = "ProductNotFound"

\* C27 amended: a checkout of a cart with a line whose product is gone fails;
\* it is answered ProductNotFound when every line before that line is
\* covered by the available stock, and InsufficientStock when the first line
\* is not.
MissingProductRefused ==
  \A w \in Workers :
    checkoutAnswered(w) =>
      \A n \in 1..Len(h[w].cart.items) :
        missingLine(h[w], n) =>
          /\ h[w].result \in {"ProductNotFound", "InsufficientStock"}
          /\ orders = h[w].pre.orders
          /\ (\A m \in 1..(n - 1) : coveredLine(h[w], m)) => h[w].result = "ProductNotFound"
          /\ (n > 1 /\ insufficientLine(h[w], 1)) => h[w].result = "InsufficientStock"

\* the second line's product is gone, the first line was reserved, and the
\* answer is ProductNotFound
SecondLineMissing ==
  \E w \in Workers :
    /\ checkoutAnswered(w)
    /\ Len(h[w].cart.items) = 2
    /\ missingLine(h[w], 2)
    /\ coveredLine(h[w], 1)
    /\ h[w].result = "ProductNotFound"

\* order o was PENDING_PAYMENT with a deadline before now when the run in
\* progress began
wasOverdue(o) ==
  /\ sweep.pre.orders[o].status = "PENDING_PAYMENT"
  /\ sweep.pre.orders[o].paymentDeadline < now

\* the units of product p in the lines of the orders 1..n that the run in
\* progress found PENDING_PAYMENT and past their deadline
RECURSIVE expiredQty(_, _)
expiredQty(n, p) ==
  IF n = 0 THEN 0
  ELSE expiredQty(n - 1, p)
       + (IF wasOverdue(n) THEN lineQty(n, p) ELSE 0)

\* C28: the step that ends a sweep run which ran alone leaves CANCELLED
\* exactly the orders that were PENDING_PAYMENT with a deadline before now when
\* the run began, every other order as it was, and every product with the
\* units of the cancelled orders' lines moved from reservedStock back to
\* availableStock, so that a product in no cancelled order keeps its counters.
SweepCancelsExactlyExpired ==
  [][(sweep.pc # "idle" /\ sweep'.pc = "idle") =>
       /\ \A o \in 1..Len(orders) :
            IF wasOverdue(o)
            THEN orders'[o] = [sweep.pre.orders[o] EXCEPT !.status = "CANCELLED"]
            ELSE orders'[o] = sweep.pre.orders[o]
       /\ \A p \in ProductIds :
            products'[p] =
              IF sweep.pre.products[p].exists
              THEN [sweep.pre.products[p] EXCEPT
                      !.reservedStock = @ - expiredQty(Len(orders), p),
                      !.availableStock = @ + expiredQty(Len(orders), p)]
              ELSE sweep.pre.products[p]]_vars

\* a run has cancelled an overdue order and left alone an order whose
\* deadline has not passed, with its units still reserved
SweepLeftFreshOrder ==
  /\ sweep.pc = "idle"
  /\ \E o \in sweep.ran : orders[o].status = "CANCELLED"
  /\ \E o \in (1..Len(orders)) \ sweep.ran :
       /\ orders[o].status = "PENDING_PAYMENT"
       /\ now <= orders[o].paymentDeadline
       /\ \E p \in ProductIds : lineQty(o, p) > 0 /\ products[p].reservedStock >= lineQty(o, p)

\* the units of product p in the lines of the orders 1..n that are
\* PENDING_PAYMENT
RECURSIVE pendingQty(_, _)
pendingQty(n, p) ==
  IF n = 0 THEN 0
  ELSE pendingQty(n - 1, p)
       + (IF orders[n].status = "PENDING_PAYMENT" THEN lineQty(n, p) ELSE 0)

\* C29: while no request and no sweep run is in progress, the reservedStock
\* of every product equals the units of that product in the lines of the
\* orders that are PENDING_PAYMENT.
ReservedMatchesPendingOrders ==
  AllIdle =>
    \A p \in ProductIds :
      products[p].exists => products[p].reservedStock = pendingQty(Len(orders), p)

\* C30: while no request and no sweep run is in progress, every order that
\* is PAID, SHIPPED or DELIVERED has exactly one SUCCESS payment record, of
\* the order's totalAmount, and every SUCCESS payment record is of an order
\* of the store that is not PENDING_PAYMENT.
PaidOrdersHaveOnePayment ==
  AllIdle =>
    /\ \A o \in 1..Len(orders) :
         orders[o].status \in {"PAID", "SHIPPED", "DELIVERED"} =>
           /\ Cardinality(successPayments(o)) = 1
           /\ \A k \in successPayments(o) : payments[k].amount = orders[o].totalAmount
    /\ \A k \in 1..Len(payments) :
         payments[k].status = "SUCCESS" =>
           /\ payments[k].orderId <= Len(orders)
           /\ orders[payments[k].orderId].status # "PENDING_PAYMENT"

\* C31: the step that ends a pay with success adds one job to the email
\* queue, with the order's id, the caller's id, the caller's email and the
\* order's totalAmount; every other step of a pay, the one that ends it
\* with a failure included, leaves the queue as it was.
PayEnqueuesOnce ==
  [][\A w \in Workers :
       (h'[w] # h[w] /\ (h[w].op = "pay" \/ h'[w].op = "pay")) =>
         IF h[w].pc # "done" /\ h'[w].pc = "done" /\ h'[w].result = "ok"
         THEN emailQueue' =
                Append(emailQueue,
                       [orderId |-> h'[w].oid, userId |-> orders[h'[w].oid].userId,
                        userEmail |-> orders[h'[w].oid].userId,
                        totalAmount |-> orders[h'[w].oid].totalAmount])
         ELSE emailQueue' = emailQueue]_vars

\* a refused pay and then a successful pay have left one job in the queue
OneJobAfterRefusedAndPaid ==
  \E w \in Workers :
    /\ payDone(w)
    /\ h[w].result \in {"Forbidden", "InvalidState", "OrderExpired", "NotFound"}
    /\ Len(emailQueue) = 1
    /\ \E o \in 1..Len(orders) :
         /\ orders[o].status = "PAID"
         /\ emailQueue[1].orderId = o
         /\ emailQueue[1].totalAmount = orders[o].totalAmount

\* two checkouts of one user that began on the same store and loaded the
\* same cart with items have both been answered
racedOnOneCart(w1, w2) ==
  /\ w1 # w2
  /\ checkoutAnswered(w1) /\ checkoutAnswered(w2)
  /\ h[w1].user = h[w2].user
  /\ h[w1].pre = h[w2].pre
  /\ h[w1].cart = h[w2].cart
  /\ h[w1].cart.exists /\ h[w1].cart.items # << >>

\* C32: of two concurrent checkouts of one user on the same cart, at most
\* one succeeds and one order at most is added to the store, and the
\* product's reservedStock has grown by at most the cart's quantity.
OneCartOneOrder ==
  \A w1, w2 \in Workers :
    racedOnOneCart(w1, w2) =>
      /\ ~(h[w1].result = "ok" /\ h[w2].result = "ok")
      /\ Len(orders) <= Len(h[w1].pre.orders) + 1
      /\ products[1].reservedStock
           <= h[w1].pre.products[1].reservedStock + h[w1].cart.items[1].quantity

putDone(w) == h[w].pc = "done" /\ h[w].op = "put"

\* C33: a step that creates a product stores it with availableStock equal to
\* its stock and reservedStock 0; a step that ends a stock update of an
\* existing product either rejects it, when the new stock would take
\* availableStock below zero, with the products as before the call, or
\* stores the new stock with availableStock changed by the same difference
\* and reservedStock, and every other product, as before.
StockUpdateKeepsReserved ==
  [][/\ created' # created =>
          /\ products'[created'].exists
          /\ products'[created'].availableStock = products'[created'].stock
          /\ products'[created'].reservedStock = 0
          /\ \A p \in ProductIds \ {created'} : products'[p] = products[p]
     /\ \A w \in Workers :
          (~putDone(w)) /\ h'[w].pc = "done" /\ h'[w].op = "put"
            /\ h'[w].pre.products[h'[w].pid].exists =>
            (LET pid == h'[w].pid
                 before == h'[w].pre.products[pid]
                 difference == h'[w].stock - before.stock
             IN IF before.availableStock + difference < 0
                THEN h'[w].result = "ValidationError" /\ products' = h'[w].pre.products
                ELSE /\ h'[w].result = "ok"
                     /\ products' =
                          [h'[w].pre.products EXCEPT
                             ![pid] = [before EXCEPT
                                         !.stock = h'[w].stock,
                                         !.availableStock = @ + difference]])]_vars

\* a stock update below the reserved units was rejected
StockBelowReservedRejected ==
  \E w \in Workers :
    /\ putDone(w)
    /\ h[w].result = "ValidationError"
    /\ products[h[w].pid].reservedStock > h[w].stock
    /\ products[h[w].pid].reservedStock > 0

cartDone(w, op) == h[w].pc = "done" /\ h[w].op = op

\* C34: whatever cart requests were served, every stored cart has at most
\* one line per product and quantities of at least 1; a step that answers an
\* accepted addItem of a product the cart had a line of leaves the cart with
\* that line's quantity raised by the request's quantity and nothing else
\* changed; a step that answers an update of the quantity of a product the
\* cart had no line of answers with an error and leaves the carts as they were.
CartLinesUniqueAndPositive ==
  [][/\ \A u \in Users :
          /\ \A n \in 1..Len(carts'[u].items) : carts'[u].items[n].quantity >= 1
          /\ \A m, n \in 1..Len(carts'[u].items) :
               carts'[u].items[m].productId = carts'[u].items[n].productId => m = n
     /\ \A w \in Workers :
          h[w].pc = "idle" /\ h'[w].pc = "done" =>
            (LET u == h'[w].user
                 n == lineOf(carts[u].items, h'[w].pid)
             IN /\ (h'[w].op = "cartAdd" /\ h'[w].result = "ok" /\ n > 0) =>
                     /\ carts'[u].items =
                          [carts[u].items EXCEPT ![n].quantity = @ + h'[w].quantity]
                     /\ \A v \in Users \ {u} : carts'[v] = carts[v]
                /\ (h'[w].op = "cartUpdate" /\ n = 0) =>
                     /\ h'[w].result # "ok"
                     /\ carts' = carts)]_vars

\* an addItem of a product the cart already had a line of, beside the line
\* of another product, has been accepted and the line's quantity has grown
QuantityAddedToLine ==
  \E w \in Workers :
    /\ cartDone(w, "cartAdd")
    /\ h[w].result = "ok"
    /\ Len(carts[h[w].user].items) = 2
    /\ LET n == lineOf(h[w].cart.items, h[w].pid)
       IN /\ n > 0
          /\ carts[h[w].user].items[n].quantity = h[w].cart.items[n].quantity + h[w].quantity
====
